---- MODULE Spec2Model ----
(***************************************************************************)
(* Model of opendlv-logic-control-differentialsteering.cpp.                *)
(*                                                                         *)
(* Two threads share the request store (vxRequest, yawRateRequest, under   *)
(* requestMutex) and the gate store (state, under stateMutex):             *)
(*   - the main thread: main() parses the arguments, registers the data    *)
(*     trigger and then runs atFrequency from od4.timeTrigger's loop;      *)
(*   - the receiver thread of the OD4Session, which hands every envelope   *)
(*     to the delegate registered for its message type.                    *)
(*                                                                         *)
(* Floats are exact rationals <<n, d>> in lowest terms with d >= 0;        *)
(* d = 0 encodes the non-finite values a division by zero produces:        *)
(* <<1, 0>> is +Inf, <<-1, 0>> is -Inf and <<0, 0>> is NaN.                *)
(***************************************************************************)
EXTENDS Integers, Sequences, FiniteSets, TLC

VARIABLES
  commandlineArguments, \* argument name -> value, for the arguments given
  pcMain,               \* position of the main thread
  retCode,              \* main's return code
  delegates,            \* message ids with a delegate registered by dataTrigger
  requestMutex,         \* holder of requestMutex: "none", "main" or "receiver"
  vxRequest,
  yawRateRequest,
  stateMutex,           \* holder of stateMutex
  state,                \* <<>> while indeterminate, <<v>> once assigned v
  gateRead,             \* the value of state the last tick read, -1 before
  vl,
  vr,
  ts,
  sent,                 \* what od4.send was given in the current tick
  tickResult,           \* what atFrequency last returned to timeTrigger
  cout,                 \* the last diagnostic line written
  pcRecv,               \* position of the receiver thread
  envelope,             \* the last envelope the session received
  msg,                  \* the message extracted by the running handler
  lastStored,           \* the last request a handler stored completely
  nStored,              \* requests stored since atFrequency last read the store
  nRead                 \* nStored as the current tick found it

vars == <<commandlineArguments, pcMain, retCode, delegates, requestMutex,
          vxRequest, yawRateRequest, stateMutex, state, gateRead, vl, vr, ts,
          sent, tickResult, cout, pcRecv, envelope, msg, lastStored, nStored,
          nRead>>

tickVars == <<gateRead, vl, vr, ts, sent, nRead, tickResult>>
recvVars == <<pcRecv, envelope, msg>>
requestVars ==
  <<requestMutex, vxRequest, yawRateRequest, lastStored, nStored>>
stateVars == <<stateMutex, state>>

----------------------------------------------------------------------------
(* Bounds of the model *)

\* cluon::time::now() returns a time in 0..MaxTime
MaxTime == 1

\* nStored counts up to MaxStored, which stands for MaxStored or more
MaxStored == 2

----------------------------------------------------------------------------
(* Float arithmetic *)

Abs(n) == IF n < 0 THEN -n ELSE n

Sign(n) == IF n > 0 THEN 1 ELSE IF n < 0 THEN -1 ELSE 0

RECURSIVE Gcd(_, _)
Gcd(a, b) == IF b = 0 THEN a ELSE Gcd(b, a % b)

\* the float n/d, in lowest terms; n/0 is +Inf, -Inf or NaN by the sign of n
Float(n, d) ==
  IF d = 0 THEN <<Sign(n), 0>>
  ELSE LET g == Gcd(Abs(n), Abs(d))
           s == Sign(d)
       IN  <<(s * n) \div g, (s * d) \div g>>

IsNaN(a) == a = <<0, 0>>

FSub(a, b) == Float(a[1] * b[2] - b[1] * a[2], a[2] * b[2])
FAdd(a, b) == Float(a[1] * b[2] + b[1] * a[2], a[2] * b[2])
FMul(a, b) == Float(a[1] * b[1], a[2] * b[2])
FDiv(a, b) == Float(a[1] * b[2] * Sign(b[1]), a[2] * Abs(b[1]))

\* comparisons with NaN are false
FGt(a, b) == ~IsNaN(a) /\ ~IsNaN(b) /\ a[1] * b[2] > b[1] * a[2]
FLt(a, b) == ~IsNaN(a) /\ ~IsNaN(b) /\ a[1] * b[2] < b[1] * a[2]

Zero == Float(0, 1)
One == Float(1, 1)
MinusOne == Float(-1, 1)
Clamp == Float(99, 100)
MinusClamp == Float(-99, 100)

----------------------------------------------------------------------------
(* Messages and arguments *)

GroundMotionRequestID == "opendlv.proxy.GroundMotionRequest"
SwitchStateRequestID == "opendlv.proxy.SwitchStateRequest"

\* the sender stamp onSwitchStateRequest accepts
SwitchStateSender == 99

\* int32_t state; is declared without an initial value
Indeterminate == <<>>
None == "none"

\* the values an int32_t read may give, as far as the gate tells them apart
StateValues == {0, 1}

VxValues == {Float(-3, 1), Float(1, 1), Float(3, 1)}
YawRateValues == {Float(0, 1), Float(1, 1)}
SenderStamps == {0, 5}

Envelopes ==
  [dataType : {GroundMotionRequestID}, senderStamp : SenderStamps,
   vx : VxValues, yawRate : YawRateValues, state : {0}]
  \cup
  [dataType : {SwitchStateRequestID}, senderStamp : {SwitchStateSender, 0},
   vx : {Zero}, yawRate : {Zero}, state : StateValues]

NoEnvelope ==
  [dataType |-> None, senderStamp |-> 0, vx |-> Zero, yawRate |-> Zero,
   state |-> 0]

Required == {"cid", "freq", "speed-max", "track-width"}

SpeedMaxValues == {Float(0, 1), Float(2, 1)}
TrackWidthValues == {Float(1, 2), Float(1, 1)}

\* the value each other argument has when it is given
ArgValue(x) ==
  CASE x = "cid" -> Float(111, 1)
    [] x = "freq" -> Float(10, 1)
    [] x = "id-input" -> Float(5, 1)
    [] x = "id-left" -> Float(2, 1)
    [] x = "id-right" -> Float(3, 1)
    [] x = "verbose" -> Float(1, 1)

\* one required argument missing, or all of them given with some options
ArgNames ==
  {Required \ {x} : x \in Required}
  \cup {Required, Required \cup {"verbose"},
        Required \cup {"id-input", "id-left", "id-right"}}

\* cluon::getCommandlineArguments: argument name -> the number given
CommandLines ==
  {[x \in names |->
      IF x = "speed-max" THEN sm
      ELSE IF x = "track-width" THEN tw ELSE ArgValue(x)] :
    names \in ArgNames, sm \in SpeedMaxValues, tw \in TrackWidthValues}

stoi(v) == IF v[1] < 0 THEN -((-v[1]) \div v[2]) ELSE v[1] \div v[2]
stof(v) == v

count(x) == IF x \in DOMAIN commandlineArguments THEN 1 ELSE 0

senderStampInput ==
  IF count("id-input") # 0 THEN stoi(commandlineArguments["id-input"]) ELSE 0
senderStampLeft ==
  IF count("id-left") # 0 THEN stoi(commandlineArguments["id-left"]) ELSE 0
senderStampRight ==
  IF count("id-right") # 0 THEN stoi(commandlineArguments["id-right"]) ELSE 1
verbose == count("verbose") # 0
trackWidth == stof(commandlineArguments["track-width"])
speedMax == stof(commandlineArguments["speed-max"])

----------------------------------------------------------------------------
(* Initial state: main is entered, nothing is registered *)

Init ==
  /\ commandlineArguments \in CommandLines
  /\ pcMain = "main"
  /\ retCode = 1
  /\ delegates = {}
  /\ requestMutex = None
  /\ vxRequest = Zero
  /\ yawRateRequest = Zero
  /\ stateMutex = None
  /\ state = Indeterminate
  /\ gateRead = -1
  /\ vl = Zero
  /\ vr = Zero
  /\ ts = 0
  /\ sent = <<>>
  /\ tickResult = TRUE
  /\ cout = ""
  /\ pcRecv = "idle"
  /\ envelope = NoEnvelope
  /\ msg = <<Zero, Zero>>
  /\ lastStored = <<Zero, Zero>>
  /\ nStored = 0
  /\ nRead = 0

----------------------------------------------------------------------------
(* main *)

\* variant: the check of line 31 is left out
Main_Arguments_NoTrackWidth ==
  /\ pcMain = "main"
  /\ IF \E x \in Required \ {"track-width"} : count(x) = 0
       THEN pcMain' = "exited"
       ELSE pcMain' = "dataTrigger"
  /\ UNCHANGED <<commandlineArguments, retCode, delegates, tickVars, cout,
                 recvVars, requestVars, stateVars>>

\* lines 26-57: without a required argument main prints the usage and returns
\* retCode 1; otherwise it reads the arguments and opens the session
Main_Arguments ==
  /\ pcMain = "main"
  /\ IF \E x \in Required : count(x) = 0
       THEN pcMain' = "exited"
       ELSE pcMain' = "dataTrigger"
  /\ UNCHANGED <<commandlineArguments, retCode, delegates, tickVars, cout,
                 recvVars, requestVars, stateVars>>

\* lines 157-158: the one delegate main registers
Main_DataTrigger ==
  /\ pcMain = "dataTrigger"
  /\ delegates' = delegates \cup {GroundMotionRequestID}
  /\ pcMain' = "timeTrigger"
  /\ UNCHANGED <<commandlineArguments, retCode, tickVars, cout, recvVars,
                 requestVars, stateVars>>

----------------------------------------------------------------------------
(* atFrequency, called from the loop of od4.timeTrigger *)

\* what a read of state gives: any value while state is indeterminate
StateRead == IF state = Indeterminate THEN StateValues ELSE {state[1]}

\* variant: the gate closes on state 0 instead of state 1
Suppress_OnZero(s) == s = 0

\* line 109
Suppress(s) == s = 1

\* variant: the signs of the two sides are exchanged
Kinematics_Swapped(vx, yawRate, width) ==
  <<FAdd(vx, FMul(yawRate, width)), FSub(vx, FMul(yawRate, width))>>

\* lines 121-122
Kinematics(vx, yawRate, width) ==
  <<FSub(vx, FMul(yawRate, width)), FAdd(vx, FMul(yawRate, width))>>

\* variant: the comparisons include the ends of the interval
Saturate_Inclusive(position) ==
  LET upper == IF ~FLt(position, One) THEN Clamp ELSE position
  IN  IF ~FGt(upper, MinusOne) THEN MinusClamp ELSE upper

\* lines 129-132 (left) and 139-142 (right)
Saturate(position) ==
  LET upper == IF FGt(position, One) THEN Clamp ELSE position
  IN  IF FLt(upper, MinusOne) THEN MinusClamp ELSE upper

\* od4.send(request, sampleTime, senderStamp)
PedalPositionRequest(position, sampleTime, senderStamp) ==
  [position |-> position, sampleTime |-> sampleTime,
   senderStamp |-> senderStamp]

\* line 108
atFrequency_LockState ==
  /\ pcMain = "timeTrigger"
  /\ stateMutex = None
  /\ stateMutex' = "main"
  /\ pcMain' = "gate"
  /\ UNCHANGED <<commandlineArguments, retCode, delegates, tickVars, cout,
                 recvVars, requestVars, state>>

\* variant: a suppressed tick returns false
atFrequency_Gate_Stop ==
  /\ pcMain = "gate"
  /\ \E s \in StateRead :
       /\ gateRead' = s
       /\ IF Suppress(s)
            THEN /\ cout' = IF verbose THEN "supressing output" ELSE cout
                 /\ tickResult' = FALSE
                 /\ pcMain' = "returned"
            ELSE /\ cout' = cout
                 /\ tickResult' = tickResult
                 /\ pcMain' = "lockRequest"
  /\ stateMutex' = None
  /\ UNCHANGED <<commandlineArguments, retCode, delegates, vl, vr, ts, sent,
                 nRead, recvVars, requestVars, state>>

\* variant: a tick that passes the gate keeps stateMutex
atFrequency_Gate_KeepLock ==
  /\ pcMain = "gate"
  /\ \E s \in StateRead :
       /\ gateRead' = s
       /\ IF Suppress(s)
            THEN /\ cout' = IF verbose THEN "supressing output" ELSE cout
                 /\ tickResult' = TRUE
                 /\ pcMain' = "returned"
                 /\ stateMutex' = None
            ELSE /\ cout' = cout
                 /\ tickResult' = tickResult
                 /\ pcMain' = "lockRequest"
                 /\ stateMutex' = stateMutex
  /\ UNCHANGED <<commandlineArguments, retCode, delegates, vl, vr, ts, sent,
                 nRead, recvVars, requestVars, state>>

\* lines 109-115
atFrequency_Gate ==
  /\ pcMain = "gate"
  /\ \E s \in StateRead :
       /\ gateRead' = s
       /\ IF Suppress(s)
            THEN /\ cout' = IF verbose THEN "supressing output" ELSE cout
                 /\ tickResult' = TRUE
                 /\ pcMain' = "returned"
            ELSE /\ cout' = cout
                 /\ tickResult' = tickResult
                 /\ pcMain' = "lockRequest"
  /\ stateMutex' = None
  /\ UNCHANGED <<commandlineArguments, retCode, delegates, vl, vr, ts, sent,
                 nRead, recvVars, requestVars, state>>

\* line 120
atFrequency_LockRequest ==
  /\ pcMain = "lockRequest"
  /\ requestMutex = None
  /\ requestMutex' = "main"
  /\ pcMain' = "kinematics"
  /\ UNCHANGED <<commandlineArguments, retCode, delegates, tickVars, cout,
                 recvVars, vxRequest, yawRateRequest, lastStored, nStored,
                 stateVars>>

\* variant: the tick takes the request out of the store
atFrequency_Kinematics_Consume ==
  /\ pcMain = "kinematics"
  /\ vl' = Kinematics(vxRequest, yawRateRequest, trackWidth)[1]
  /\ vr' = Kinematics(vxRequest, yawRateRequest, trackWidth)[2]
  /\ vxRequest' = Zero
  /\ yawRateRequest' = Zero
  /\ requestMutex' = None
  /\ nRead' = nStored
  /\ nStored' = 0
  /\ pcMain' = "now"
  /\ UNCHANGED <<commandlineArguments, retCode, delegates, gateRead, ts, sent,
                 tickResult, cout, recvVars, lastStored, stateVars>>

\* lines 121-123
atFrequency_Kinematics ==
  /\ pcMain = "kinematics"
  /\ vl' = Kinematics(vxRequest, yawRateRequest, trackWidth)[1]
  /\ vr' = Kinematics(vxRequest, yawRateRequest, trackWidth)[2]
  /\ requestMutex' = None
  /\ nRead' = nStored
  /\ nStored' = 0
  /\ pcMain' = "now"
  /\ UNCHANGED <<commandlineArguments, retCode, delegates, gateRead, ts, sent,
                 tickResult, cout, recvVars, vxRequest, yawRateRequest,
                 lastStored, stateVars>>

\* line 124
atFrequency_Now ==
  /\ pcMain = "now"
  /\ ts' \in 0..MaxTime
  /\ pcMain' = "left"
  /\ UNCHANGED <<commandlineArguments, retCode, delegates, gateRead, vl, vr,
                 sent, nRead, tickResult, cout, recvVars, requestVars,
                 stateVars>>

\* lines 127-136
atFrequency_SendLeft ==
  /\ pcMain = "left"
  /\ sent' = Append(sent, PedalPositionRequest(
                Saturate(FDiv(vl, speedMax)), ts, senderStampLeft))
  /\ pcMain' = "right"
  /\ UNCHANGED <<commandlineArguments, retCode, delegates, gateRead, vl, vr,
                 ts, nRead, tickResult, cout, recvVars, requestVars,
                 stateVars>>

\* variant: the right request is stamped with a time taken anew
atFrequency_SendRight_NewTime ==
  /\ pcMain = "right"
  /\ \E now \in 0..MaxTime :
       sent' = Append(sent, PedalPositionRequest(
                 Saturate(FDiv(vr, speedMax)), now, senderStampRight))
  /\ cout' = IF verbose THEN "Sending pedal requests" ELSE cout
  /\ tickResult' = TRUE
  /\ pcMain' = "returned"
  /\ UNCHANGED <<commandlineArguments, retCode, delegates, gateRead, vl, vr,
                 ts, nRead, recvVars, requestVars, stateVars>>

\* lines 137-154
atFrequency_SendRight ==
  /\ pcMain = "right"
  /\ sent' = Append(sent, PedalPositionRequest(
                Saturate(FDiv(vr, speedMax)), ts, senderStampRight))
  /\ cout' = IF verbose THEN "Sending pedal requests" ELSE cout
  /\ tickResult' = TRUE
  /\ pcMain' = "returned"
  /\ UNCHANGED <<commandlineArguments, retCode, delegates, gateRead, vl, vr,
                 ts, nRead, recvVars, requestVars, stateVars>>

\* line 159: atFrequency returned true and the session runs on: next tick
TimeTrigger_Continue ==
  /\ pcMain = "returned"
  /\ tickResult = TRUE
  /\ pcMain' = "timeTrigger"
  /\ vl' = Zero
  /\ vr' = Zero
  /\ ts' = 0
  /\ sent' = <<>>
  /\ nRead' = 0
  /\ UNCHANGED <<commandlineArguments, retCode, delegates, gateRead,
                 tickResult, cout, recvVars, requestVars, stateVars>>

\* lines 159-163: atFrequency returned false or the session was ended;
\* timeTrigger returns and so does main; what the last tick left behind is
\* gone
TimeTrigger_Return ==
  /\ pcMain = "returned"
  /\ retCode' = 0
  /\ pcMain' = "exited"
  /\ gateRead' = -1
  /\ vl' = Zero
  /\ vr' = Zero
  /\ ts' = 0
  /\ sent' = <<>>
  /\ nRead' = 0
  /\ UNCHANGED <<commandlineArguments, delegates, tickResult, cout, recvVars,
                 requestVars, stateVars>>

----------------------------------------------------------------------------
(* The receiver thread of the session and the delegates *)

\* the session exists from line 56 until main returns
SessionOpen == pcMain \notin {"main", "exited"}

\* variant: the sender stamp is not looked at
Accept_Any(e) == TRUE

\* line 69
Accept(e) == e.senderStamp = senderStampInput

\* lines 87-101; main never hands this delegate to od4.dataTrigger
onSwitchStateRequest(e) ==
  /\ stateMutex = None
  /\ IF e.senderStamp = SwitchStateSender
       THEN /\ state' = <<e.state>>
            /\ cout' = IF verbose THEN "Got switch state" ELSE cout
       ELSE UNCHANGED <<state, cout>>
  /\ pcRecv' = "idle"
  /\ UNCHANGED stateMutex

\* the session receives an envelope and calls the delegate of its type
OD4_Receive(e) ==
  /\ SessionOpen
  /\ pcRecv = "idle"
  /\ envelope' = e
  /\ IF e.dataType \in delegates /\ e.dataType = SwitchStateRequestID
       THEN onSwitchStateRequest(e)
       ELSE /\ pcRecv' = IF e.dataType \in delegates
                            THEN "onGroundMotionRequest" ELSE "idle"
            /\ UNCHANGED <<stateVars, cout>>
  /\ UNCHANGED <<commandlineArguments, pcMain, retCode, delegates, tickVars,
                 msg, requestVars>>

\* lines 69-72
onGroundMotionRequest_Filter ==
  /\ SessionOpen
  /\ pcRecv = "onGroundMotionRequest"
  /\ IF Accept(envelope)
       THEN /\ msg' = <<envelope.vx, envelope.yawRate>>
            /\ pcRecv' = "lock"
       ELSE /\ msg' = msg
            /\ pcRecv' = "idle"
  /\ UNCHANGED <<commandlineArguments, pcMain, retCode, delegates, tickVars,
                 cout, envelope, requestVars, stateVars>>

\* variant: the delegate does not wait for requestMutex
onGroundMotionRequest_Lock_NoWait ==
  /\ SessionOpen
  /\ pcRecv = "lock"
  /\ requestMutex' = "receiver"
  /\ pcRecv' = "vx"
  /\ UNCHANGED <<commandlineArguments, pcMain, retCode, delegates, tickVars,
                 cout, envelope, msg, vxRequest, yawRateRequest, lastStored,
                 nStored, stateVars>>

\* line 75
onGroundMotionRequest_Lock ==
  /\ SessionOpen
  /\ pcRecv = "lock"
  /\ requestMutex = None
  /\ requestMutex' = "receiver"
  /\ pcRecv' = "vx"
  /\ UNCHANGED <<commandlineArguments, pcMain, retCode, delegates, tickVars,
                 cout, envelope, msg, vxRequest, yawRateRequest, lastStored,
                 nStored, stateVars>>

\* variant: the request is added to the stored one
onGroundMotionRequest_Vx_Accumulate ==
  /\ SessionOpen
  /\ pcRecv = "vx"
  /\ vxRequest' = FAdd(vxRequest, msg[1])
  /\ pcRecv' = "yawRate"
  /\ UNCHANGED <<commandlineArguments, pcMain, retCode, delegates, tickVars,
                 cout, envelope, msg, requestMutex, yawRateRequest, lastStored,
                 nStored, stateVars>>

\* line 76
onGroundMotionRequest_Vx ==
  /\ SessionOpen
  /\ pcRecv = "vx"
  /\ vxRequest' = msg[1]
  /\ pcRecv' = "yawRate"
  /\ UNCHANGED <<commandlineArguments, pcMain, retCode, delegates, tickVars,
                 cout, envelope, msg, requestMutex, yawRateRequest, lastStored,
                 nStored, stateVars>>

\* variant: the delegate also puts the gate store to 0
onGroundMotionRequest_YawRate_SetsState ==
  /\ SessionOpen
  /\ pcRecv = "yawRate"
  /\ yawRateRequest' = msg[2]
  /\ requestMutex' = None
  /\ lastStored' = msg
  /\ nStored' = IF nStored < MaxStored THEN nStored + 1 ELSE nStored
  /\ cout' = IF verbose THEN "Got request" ELSE cout
  /\ pcRecv' = "idle"
  /\ state' = <<0>>
  /\ UNCHANGED <<commandlineArguments, pcMain, retCode, delegates, tickVars,
                 envelope, msg, vxRequest, stateMutex>>

\* lines 77-84
onGroundMotionRequest_YawRate ==
  /\ SessionOpen
  /\ pcRecv = "yawRate"
  /\ yawRateRequest' = msg[2]
  /\ requestMutex' = None
  /\ lastStored' = msg
  /\ nStored' = IF nStored < MaxStored THEN nStored + 1 ELSE nStored
  /\ cout' = IF verbose THEN "Got request" ELSE cout
  /\ pcRecv' = "idle"
  /\ UNCHANGED <<commandlineArguments, pcMain, retCode, delegates, tickVars,
                 envelope, msg, vxRequest, stateVars>>

----------------------------------------------------------------------------

Next ==
  \/ Main_Arguments
  \/ Main_DataTrigger
  \/ atFrequency_LockState
  \/ atFrequency_Gate
  \/ atFrequency_LockRequest
  \/ atFrequency_Kinematics
  \/ atFrequency_Now
  \/ atFrequency_SendLeft
  \/ atFrequency_SendRight
  \/ TimeTrigger_Continue
  \/ TimeTrigger_Return
  \/ \E e \in Envelopes : OD4_Receive(e)
  \/ onGroundMotionRequest_Filter
  \/ onGroundMotionRequest_Lock
  \/ onGroundMotionRequest_Vx
  \/ onGroundMotionRequest_YawRate

Spec == Init /\ [][Next]_vars

----------------------------------------------------------------------------
(* The same program under fair scheduling of its two threads *)

\* started as: --cid=111 --freq=10 --speed-max=2 --track-width=0.5
InitLive ==
  /\ Init
  /\ DOMAIN commandlineArguments = Required
  /\ commandlineArguments["speed-max"] = Float(2, 1)
  /\ commandlineArguments["track-width"] = Float(1, 2)

\* the requests sent to this program, with the input sender stamp 0
LiveRequests ==
  {<<Float(1, 1), Float(1, 1)>>, <<Float(3, 1), Float(0, 1)>>,
   <<Float(-3, 1), Float(1, 1)>>}

\* what the bus carries: these requests, one request of another sender and
\* a state request of sender 99
LiveEnvelopes ==
  {e \in Envelopes :
     \/ /\ e.dataType = GroundMotionRequestID
        /\ e.senderStamp = 0
        /\ <<e.vx, e.yawRate>> \in LiveRequests
     \/ /\ e.dataType = GroundMotionRequestID
        /\ e.senderStamp = 5
        /\ <<e.vx, e.yawRate>> = <<Float(1, 1), Float(0, 1)>>
     \/ /\ e.dataType = SwitchStateRequestID
        /\ e.senderStamp = SwitchStateSender
        /\ e.state = 1}

NextLive ==
  \/ Main_Arguments
  \/ Main_DataTrigger
  \/ atFrequency_LockState
  \/ atFrequency_Gate
  \/ atFrequency_LockRequest
  \/ atFrequency_Kinematics
  \/ atFrequency_Now
  \/ atFrequency_SendLeft
  \/ atFrequency_SendRight
  \/ TimeTrigger_Continue
  \/ TimeTrigger_Return
  \/ \E e \in LiveEnvelopes : OD4_Receive(e)
  \/ onGroundMotionRequest_Filter
  \/ onGroundMotionRequest_Lock
  \/ onGroundMotionRequest_Vx
  \/ onGroundMotionRequest_YawRate

\* the steps of the main thread that wait for nothing
MainStep ==
  \/ Main_Arguments
  \/ Main_DataTrigger
  \/ atFrequency_LockState
  \/ atFrequency_Gate
  \/ atFrequency_Kinematics
  \/ atFrequency_Now
  \/ atFrequency_SendLeft
  \/ atFrequency_SendRight
  \/ TimeTrigger_Continue

\* the steps of a running delegate that wait for nothing
DelegateStep ==
  \/ onGroundMotionRequest_Filter
  \/ onGroundMotionRequest_Vx
  \/ onGroundMotionRequest_YawRate

\* both threads are scheduled again and again, and atFrequency gets
\* requestMutex once it has been free often enough
LiveSpec ==
  /\ InitLive
  /\ [][NextLive]_vars
  /\ WF_vars(MainStep)
  /\ WF_vars(DelegateStep)
  /\ SF_vars(atFrequency_LockRequest)

----------------------------------------------------------------------------
(* Properties *)

\* atFrequency has returned to the loop of timeTrigger
TickReturned == pcMain = "returned"

\* atFrequency is past the gate, on its way to the two sends
TickEmitting ==
  pcMain \in {"lockRequest", "kinematics", "now", "left", "right"}

\* the step of atFrequency that reads the request store
ReadsRequest == pcMain = "kinematics" /\ pcMain' = "now"

Half == Float(1, 2)
Two == Float(2, 1)

\* C1: a tick that read state = 1 goes straight back to the loop and has
\* sent nothing, whatever request is stored
C1_GateSuppression ==
  /\ (TickReturned /\ gateRead = 1) => sent = <<>>
  /\ TickEmitting => gateRead # 1

C1_Witness ==
  /\ TickReturned
  /\ gateRead = 1
  /\ sent = <<>>
  /\ <<vxRequest, yawRateRequest>> = <<Float(3, 1), Float(1, 1)>>

\* C2: a tick that read state # 1 has sent exactly two requests when it
\* returns, the first under senderStampLeft, the second under
\* senderStampRight, both with the one time stamp the tick took
C2_GatePassThrough ==
  (TickReturned /\ gateRead # 1) =>
    /\ Len(sent) = 2
    /\ sent[1].senderStamp = senderStampLeft
    /\ sent[2].senderStamp = senderStampRight
    /\ sent[1].sampleTime = sent[2].sampleTime
    /\ sent[1].sampleTime = ts

C2_Witness ==
  /\ TickReturned
  /\ gateRead # 1
  /\ Len(sent) = 2
  /\ sent[1].senderStamp = 0
  /\ sent[2].senderStamp = 1
  /\ sent[1].sampleTime = MaxTime
  /\ sent[2].sampleTime = MaxTime

\* C3: a SwitchStateRequest on the bus with sender stamp 99 puts its state
\* into the gate store, one with another sender stamp leaves the store as
\* it is
C3_StateHandlerDelivery ==
  [][\A e \in Envelopes :
       (e.dataType = SwitchStateRequestID /\ OD4_Receive(e)) =>
         IF e.senderStamp = SwitchStateSender
           THEN state' = <<e.state>>
           ELSE state' = state]_vars

\* C4: with speedMax > 0 every position sent lies strictly between -1 and 1
C4_OutputBound ==
  \A i \in 1..Len(sent) :
    FGt(speedMax, Zero) =>
      /\ FGt(sent[i].position, MinusOne)
      /\ FLt(sent[i].position, One)

\* the position the saturation policy names for the ratio r = n/d, d > 0
PolicyHolds(r, position) ==
  /\ (-r[2] <= r[1] /\ r[1] <= r[2]) => position = r
  /\ r[1] > r[2] => position = <<99, 100>>
  /\ r[1] < -r[2] => position = <<-99, 100>>

\* C5: with speedMax > 0 the position sent for a side is speed/speedMax
\* when that lies in [-1, 1], 0.99 when it is above 1 and -0.99 when it is
\* below -1, for the left side from vl and for the right side from vr; with
\* speedMax 2 and wheel speeds (3, 3) both positions are 0.99
C5_SaturationPolicy ==
  /\ (Len(sent) >= 1 /\ FGt(speedMax, Zero)) =>
       PolicyHolds(FDiv(vl, speedMax), sent[1].position)
  /\ (Len(sent) >= 2 /\ FGt(speedMax, Zero)) =>
       PolicyHolds(FDiv(vr, speedMax), sent[2].position)
  /\ (Len(sent) = 2 /\ speedMax = Two /\ vl = <<3, 1>> /\ vr = <<3, 1>>) =>
       (sent[1].position = <<99, 100>> /\ sent[2].position = <<99, 100>>)

\* the left side at the end of the interval, the right side above it
C5_Witness ==
  /\ TickReturned
  /\ speedMax = Two
  /\ vl = Two
  /\ vr = Float(4, 1)
  /\ sent[1].position = One
  /\ sent[2].position = Clamp

\* C6: the step that reads the request (v, w) sets vl = v - w * trackWidth
\* and vr = v + w * trackWidth; for (1, 1) and trackWidth 0.5 that is 0.5
\* and 1.5
C6_Kinematics ==
  [][ReadsRequest =>
       /\ FAdd(vl', FMul(yawRateRequest, trackWidth)) = vxRequest
       /\ FSub(vr', FMul(yawRateRequest, trackWidth)) = vxRequest
       /\ (vxRequest = One /\ yawRateRequest = One /\ trackWidth = Half) =>
            (vl' = <<1, 2>> /\ vr' = <<3, 2>>)]_vars

\* the worked example: speedMax 2, trackWidth 0.5, request (1, 1)
C6_Witness ==
  /\ TickReturned
  /\ speedMax = Two
  /\ trackWidth = Half
  /\ vl = <<1, 2>>
  /\ vr = <<3, 2>>
  /\ Len(sent) = 2
  /\ sent[1].position = <<1, 4>>
  /\ sent[2].position = <<3, 4>>

\* C7: the step that reads the request store finds the request stored last
\* and computes vl and vr from it alone
C7_OverwriteSemantics ==
  [][ReadsRequest =>
       /\ <<vxRequest, yawRateRequest>> = lastStored
       /\ <<vl', vr'>> =
            <<FSub(lastStored[1], FMul(lastStored[2], trackWidth)),
              FAdd(lastStored[1], FMul(lastStored[2], trackWidth))>>]_vars

\* two or more requests were stored before the tick read the store, and the
\* tick sent what the last one gives
C7_Witness ==
  /\ TickReturned
  /\ nRead >= 2
  /\ lastStored = <<One, One>>
  /\ trackWidth = Half
  /\ speedMax = Two
  /\ Len(sent) = 2
  /\ sent[1].position = <<1, 4>>
  /\ sent[2].position = <<3, 4>>

\* C8: the handler ends at once on an envelope whose sender stamp is not
\* senderStampInput; the store changes only in a handler run on a matching
\* envelope, and when that run ends both fields hold the envelope's values
C8_SourceFiltering ==
  [][/\ (pcRecv = "onGroundMotionRequest"
          /\ envelope.senderStamp # senderStampInput
          /\ pcRecv' # pcRecv) =>
            (pcRecv' = "idle" /\ vxRequest' = vxRequest
             /\ yawRateRequest' = yawRateRequest)
     /\ (vxRequest' # vxRequest \/ yawRateRequest' # yawRateRequest) =>
            (envelope.dataType = GroundMotionRequestID
             /\ envelope.senderStamp = senderStampInput)
     /\ (pcRecv = "yawRate" /\ pcRecv' = "idle") =>
            (vxRequest' = envelope.vx /\ yawRateRequest' = envelope.yawRate)
    ]_vars

\* a request with another sender stamp was dropped and the store kept the
\* request stored before
C8_Witness ==
  /\ pcRecv = "idle"
  /\ envelope.dataType = GroundMotionRequestID
  /\ envelope.senderStamp # senderStampInput
  /\ envelope.vx = Float(-3, 1)
  /\ <<vxRequest, yawRateRequest>> = <<Float(3, 1), One>>

\* C9: while state was never assigned, every tick sends two requests
C9_DefaultGate ==
  (TickReturned /\ state = Indeterminate) => Len(sent) = 2

\* C10: started with speedMax = 0, main registers nothing, sends nothing and
\* returns a return code other than 0
C10_ZeroSpeedMaxFatal ==
  (Required \subseteq DOMAIN commandlineArguments /\ speedMax = Zero) =>
    /\ delegates = {}
    /\ sent = <<>>
    /\ pcMain \in {"main", "exited"}
    /\ pcMain = "exited" => retCode # 0

\* a required argument is missing from the command line
ArgumentMissing == \E x \in Required : count(x) = 0

\* C11: without one of cid, freq, speed-max and track-width main goes from
\* its entry straight to its return with retCode 1: no delegate is
\* registered, no tick runs, nothing is sent
C11_MissingArgumentFatal ==
  ArgumentMissing =>
    /\ pcMain \in {"main", "exited"}
    /\ retCode = 1
    /\ delegates = {}
    /\ sent = <<>>
    /\ pcRecv = "idle"
    /\ envelope = NoEnvelope

C11_Witness ==
  /\ pcMain = "exited"
  /\ retCode = 1
  /\ "track-width" \notin DOMAIN commandlineArguments
  /\ delegates = {}
  /\ sent = <<>>

\* atFrequency is running
InTick ==
  pcMain \in {"gate", "lockRequest", "kinematics", "now", "left", "right"}

\* C12: a tick that has returned has returned true, suppressed or not, and
\* every tick that runs returns
C12_TickContinues ==
  /\ [](TickReturned => tickResult = TRUE)
  /\ InTick ~> TickReturned

\* a suppressed tick has returned true while a request is being stored
C12_Witness ==
  /\ TickReturned
  /\ tickResult = TRUE
  /\ gateRead = 1
  /\ sent = <<>>
  /\ requestMutex = "receiver"

\* the delegate is between its lock and its unlock
Storing == pcRecv \in {"vx", "yawRate"}

\* the tick has read the request store and not yet gone back to the loop
\* for the next tick
HasRead ==
  \/ pcMain \in {"now", "left", "right"}
  \/ TickReturned /\ Len(sent) = 2

\* C14: the tick reads the request store only while no delegate is writing
\* it; the store then holds the two fields of one request (or the initial
\* 0, 0), vl and vr both come from that request, and the two positions sent
\* are those of this vl and this vr
C14_ConsistentSnapshot ==
  /\ ~(pcMain = "kinematics" /\ Storing)
  /\ ~Storing => <<vxRequest, yawRateRequest>> = lastStored
  /\ (HasRead /\ nStored = 0) =>
       <<vl, vr>> = Kinematics(lastStored[1], lastStored[2], trackWidth)
  /\ (TickReturned /\ Len(sent) = 2) =>
       /\ sent[1].position = Saturate(FDiv(vl, speedMax))
       /\ sent[2].position = Saturate(FDiv(vr, speedMax))

\* the tick read the request (3, 1) and has sent its left side; the
\* delegate has since written the vx of the next request, -3, and not yet
\* its yawRate, 0
C14_Witness ==
  /\ pcMain = "right"
  /\ pcRecv = "yawRate"
  /\ nStored = 0
  /\ lastStored = <<Float(3, 1), One>>
  /\ <<vxRequest, yawRateRequest>> = <<Float(-3, 1), One>>
  /\ msg = <<Float(-3, 1), Zero>>
  /\ <<vl, vr>> = Kinematics(Float(3, 1), One, trackWidth)
  /\ Len(sent) = 1

\* the mutexes a thread holds
Held(thread) ==
  (IF requestMutex = thread THEN {"requestMutex"} ELSE {})
    \cup (IF stateMutex = thread THEN {"stateMutex"} ELSE {})

\* C16: no thread holds requestMutex and stateMutex together; the tick
\* holds stateMutex only at the gate and requestMutex only while it reads,
\* the delegate holds requestMutex only while it stores; and whenever a
\* thread waits for a mutex the other thread holds, the holder is at a step
\* that waits for nothing and ends with the unlock
C16_LockDomains ==
  /\ \A thread \in {"main", "receiver"} : Cardinality(Held(thread)) <= 1
  /\ stateMutex = "main" <=> pcMain = "gate"
  /\ requestMutex = "main" <=> pcMain = "kinematics"
  /\ requestMutex = "receiver" <=> Storing
  /\ stateMutex # "receiver"
  /\ pcMain = "timeTrigger" => stateMutex = None
  /\ (pcMain = "lockRequest" /\ requestMutex # None) =>
       (Storing /\ Held("receiver") = {"requestMutex"})
  /\ (pcRecv = "lock" /\ requestMutex # None) =>
       (pcMain = "kinematics" /\ Held("main") = {"requestMutex"})

\* the tick waits for requestMutex while the delegate stores, and the
\* delegate holds nothing else
C16_Witness ==
  /\ pcMain = "lockRequest"
  /\ pcRecv = "vx"
  /\ requestMutex = "receiver"
  /\ stateMutex = None

\* the tick has returned after sending the two positions of the request m
EmittedFor(m) ==
  /\ TickReturned
  /\ Len(sent) = 2
  /\ sent[1].position =
       Saturate(FDiv(Kinematics(m[1], m[2], trackWidth)[1], speedMax))
  /\ sent[2].position =
       Saturate(FDiv(Kinematics(m[1], m[2], trackWidth)[2], speedMax))

\* C17: when from some point on the request m is the last one stored, the
\* reads of state give no 1 and the session runs on, then ticks that have
\* sent the two positions of m keep coming and, from some point on, every
\* tick that returns has sent them
C17_EventualEmission ==
  \A m \in LiveRequests :
    (<>[](lastStored = m) /\ <>[](gateRead # 1) /\ [](pcMain # "exited")) =>
      ([]<>EmittedFor(m) /\ <>[](TickReturned => EmittedFor(m)))

\* a tick before which no new request was stored has sent the positions of
\* the request (3, 0) once more, both saturated
C17_Witness ==
  /\ EmittedFor(<<Float(3, 1), Zero>>)
  /\ lastStored = <<Float(3, 1), Zero>>
  /\ nRead = 0
  /\ nStored = 0
  /\ gateRead = 0
  /\ sent[1].position = Clamp
  /\ sent[2].position = Clamp

\* a step of atFrequency, its entry included
TickStep == (pcMain = "timeTrigger" \/ InTick) /\ pcMain' # pcMain

MotionHandlerStep ==
  /\ pcRecv \in {"onGroundMotionRequest", "lock", "vx", "yawRate"}
  /\ pcRecv' # pcRecv
  /\ pcMain' # "exited"

\* the step OD4_Receive on a SwitchStateRequest: the idle receiver takes the
\* envelope while main stays where it is
SwitchStateArrival ==
  /\ pcRecv = "idle"
  /\ pcMain' = pcMain
  /\ envelope'.dataType = SwitchStateRequestID

\* C19: no step of onGroundMotionRequest, on a matching envelope or on
\* another, changes state or touches stateMutex; and the arrival of a
\* SwitchStateRequest, of sender 99 or of another, with whatever the session
\* calls for it, leaves vxRequest and yawRateRequest as they are
C19_OneStorePerHandler ==
  [][/\ MotionHandlerStep => (state' = state /\ stateMutex' = stateMutex)
     /\ SwitchStateArrival =>
          (vxRequest' = vxRequest /\ yawRateRequest' = yawRateRequest
           /\ requestMutex' = requestMutex)
    ]_vars

\* the delegate has stored the request (3, 1) of a matching envelope and
\* state is as it was, never assigned
C19_Witness ==
  /\ pcRecv = "idle"
  /\ envelope.dataType = GroundMotionRequestID
  /\ envelope.senderStamp = senderStampInput
  /\ <<envelope.vx, envelope.yawRate>> = <<Float(3, 1), One>>
  /\ <<vxRequest, yawRateRequest>> = <<Float(3, 1), One>>
  /\ nStored >= 1
  /\ state = Indeterminate
  /\ stateMutex = None

====
